---- MODULE Spec2Model ----
(***************************************************************************)
(* Phylax8004: the A2A task registry, the chat routes with their context   *)
(* stores (backend/src/routes/a2a.routes.ts) and the x402 request          *)
(* orchestrator of the chat interface (frontend/components/header.tsx and  *)
(* its restyled copy unnamed/part_001).                                    *)
(*                                                                         *)
(* Server side: every inbound HTTP request is one flow of control that     *)
(* runs synchronously up to its next `await`; one action of the model is   *)
(* one such run.  Strings are sequences of symbols, so `+=` on a string    *)
(* is \o.  JavaScript arrays are heap objects: a Map holds a reference to  *)
(* an array, and two handlers may hold the same or different arrays.       *)
(***************************************************************************)
EXTENDS Integers, Sequences, FiniteSets, TLC

\* ------------------------------------------------------------------ bounds
MaxReq == 2        \* inbound server requests per behaviour
MaxChunks == 2     \* increments a producer yields before it ends or fails

Req == 1..MaxReq
\* A context / session id that callers name explicitly (configuration.contextId,
\* sessionId); every other context is one a handler made with uuidv4().
SharedCtx == 1
NamedCtx == {SharedCtx}
\* uuidv4(): a fresh id per call; the id made for request r is derived from r
Uuid(r) == 0 - r
AllCtx == NamedCtx \cup {Uuid(r) : r \in Req}
NoCtx == 0         \* configuration.contextId / sessionId absent
NoRef == 0         \* Map.get(...) returned undefined
UnknownTask == 0   \* a task id no request ever created

\* The handlers copy the user text and never inspect it: request r carries a text
\* of its own, so that every turn in a store names the request it came from.
QAlphabet == <<"p", "q", "r", "s">>
TextOf(r) == <<QAlphabet[r]>>
Responses == {<<"y", "z">>}          \* processQuery results (never empty: nilai.service.ts:90-92)
\* The producer's k-th increment: non-empty (nilai.service.ts:129-132 skips empty
\* deltas) and different for each k, so that the order of increments shows.
Alphabet == <<"a", "b", "c", "d">>
ChunkAt(k) == <<Alphabet[k]>>
Terminal == {"completed", "failed", "canceled"}

NoTask == [status |-> "none"]
NoJson == [kind |-> "none"]

VARIABLES
  \* ---- server: a2a.routes.ts
  tasks,                \* const tasks = new Map<string, A2ATask>()
  conversationHistory,  \* Map contextId -> reference of a ConversationMessage[]
  sessionHistory,       \* Map sessionId -> reference of a ChatMessage[]
  heap,                 \* the arrays themselves: reference -> sequence of turns
  arrived,              \* number of requests received so far
  req,                  \* per request: the locals of its handler
  res,                  \* per request: its express.Response
  completionOrder       \* history variable: per store and context, requests in the order their work completed

srvVars == <<tasks, conversationHistory, sessionHistory, heap, arrived, req, res,
             completionOrder>>

\* ------------------------------------------------------------------ values
UserMessage(text) == [role |-> "user", text |-> text]
\* An agent message that carries no text.
AgentMessageEmpty(text) == [role |-> "agent", text |-> <<>>]
AgentMessage(text) == [role |-> "agent", text |-> text]
UserTurn(text) == [role |-> "user", content |-> text]
AssistantTurn(text) == [role |-> "assistant", content |-> text]

\* a2a.routes.ts:163-169, 180-187, 197-206, 224-233: the task objects the handler builds
Task(id, ctx, status, messages) ==
  [id |-> id, contextId |-> ctx, status |-> status, messages |-> messages]

\* a2a.routes.ts:81: the method names a JSON-RPC envelope may carry
Methods == {"message/send", "tasks/get", "tasks/cancel", "tasks/list"}

IdleReq ==
  [pc |-> "new", route |-> "none", versionOk |-> TRUE, method |-> "none",
   taskId |-> UnknownTask, streaming |-> FALSE, contextId |-> NoCtx,
   userText |-> <<>>, history |-> NoRef, fullResponse |-> <<>>, seen |-> 0,
   producerFailed |-> FALSE, threw |-> FALSE]

FreshRes ==
  [headersSent |-> FALSE, ended |-> FALSE, destroyed |-> FALSE, status |-> 0,
   json |-> NoJson, events |-> <<>>, jsonAfterHeaders |-> FALSE,
   clientClosed |-> FALSE]

InFlight(r) == req[r].pc \notin {"new", "done"}

\* res.json(body) on a response whose headers are not sent yet
SendJson(r, status, body) ==
  [res EXCEPT ![r].headersSent = TRUE, ![r].ended = TRUE, ![r].status = status,
              ![r].json = body]

JsonResult(result) == [kind |-> "result", result |-> result]
JsonError(code, message) == [kind |-> "error", code |-> code, message |-> message]

\* ------------------------------------------------------------------ server Init
InitSrv ==
  /\ tasks = [t \in Req |-> NoTask]
  /\ conversationHistory = [c \in AllCtx |-> NoRef]
  /\ sessionHistory = [c \in AllCtx |-> NoRef]
  /\ heap = [a \in Req |-> <<>>]
  /\ arrived = 0
  /\ req = [r \in Req |-> IdleReq]
  /\ res = [r \in Req |-> FreshRes]
  /\ completionOrder = [k \in {"a2a", "chat"} \X AllCtx |-> <<>>]

\* The next request to arrive gets the next id.
Arrives(r) == r = arrived + 1 /\ r \in Req

\* ------------------------------------------------------------------ POST /a2a
\* a2a.routes.ts:84-91
A2AInvalidRequest(r, method) ==
  /\ Arrives(r)
  /\ arrived' = r
  \* the method is destructured at 81 and not looked at before the return at 90
  /\ method \in Methods
  /\ req' = [req EXCEPT ![r].pc = "done", ![r].route = "a2a", ![r].versionOk = FALSE]
  /\ res' = SendJson(r, 200, JsonError(-32600, "Invalid Request"))
  /\ UNCHANGED <<tasks, conversationHistory, sessionHistory, heap, completionOrder>>

\* a2a.routes.ts:105-111
A2AMethodNotFound(r) ==
  /\ Arrives(r)
  /\ arrived' = r
  /\ req' = [req EXCEPT ![r].pc = "done", ![r].route = "a2a", ![r].method = "tasks/list"]
  /\ res' = SendJson(r, 200, JsonError(-32601, "Method not found"))
  /\ UNCHANGED <<tasks, conversationHistory, sessionHistory, heap, completionOrder>>

\* a2a.routes.ts:242-248 under the dispatcher 99-100, 115-123
HandleTasksGet(r, taskId) ==
  /\ Arrives(r)
  /\ arrived' = r
  /\ req' = [req EXCEPT ![r].pc = "done", ![r].route = "a2a",
                        ![r].method = "tasks/get", ![r].taskId = taskId,
                        ![r].threw = (taskId \notin Req \/ tasks[taskId] = NoTask)]
  /\ res' = IF taskId \in Req /\ tasks[taskId] # NoTask
              THEN SendJson(r, 200, JsonResult(tasks[taskId]))
              ELSE SendJson(r, 200, JsonError(-32603, "Task not found"))
  /\ UNCHANGED <<tasks, conversationHistory, sessionHistory, heap, completionOrder>>

\* a2a.routes.ts:258: task.status = 'canceled', whatever the status was
CancelStatus(status) == "canceled"

\* A cancel that records a canceled task under an id the registry does not hold.
HandleTasksCancelUpsert(r, taskId) ==
  /\ Arrives(r)
  /\ arrived' = r
  /\ req' = [req EXCEPT ![r].pc = "done", ![r].route = "a2a",
                        ![r].method = "tasks/cancel", ![r].taskId = taskId,
                        ![r].threw = (taskId \notin Req)]
  /\ IF taskId \in Req
       THEN /\ tasks' = [tasks EXCEPT ![taskId] =
                           IF @ = NoTask THEN Task(taskId, NoCtx, "canceled", <<>>)
                                         ELSE [@ EXCEPT !.status = "canceled"]]
            /\ res' = SendJson(r, 200, JsonResult(tasks'[taskId]))
       ELSE /\ res' = SendJson(r, 200, JsonError(-32603, "Task not found"))
            /\ UNCHANGED tasks
  /\ UNCHANGED <<conversationHistory, sessionHistory, heap, completionOrder>>

\* a2a.routes.ts:253-260 under the dispatcher 102-103, 115-123
HandleTasksCancel(r, taskId) ==
  /\ Arrives(r)
  /\ arrived' = r
  /\ req' = [req EXCEPT ![r].pc = "done", ![r].route = "a2a",
                        ![r].method = "tasks/cancel", ![r].taskId = taskId,
                        ![r].threw = (taskId \notin Req \/ tasks[taskId] = NoTask)]
  /\ IF taskId \in Req /\ tasks[taskId] # NoTask
       THEN /\ tasks' = [tasks EXCEPT ![taskId].status = CancelStatus(@)]
            /\ res' = SendJson(r, 200, JsonResult(tasks'[taskId]))
       ELSE /\ res' = SendJson(r, 200, JsonError(-32603, "Task not found"))
            /\ UNCHANGED tasks
  /\ UNCHANGED <<conversationHistory, sessionHistory, heap, completionOrder>>

\* ------------------------------------------------------------------ message/send
\* One array that every context's turns go to.
HistoryRefShared(map, ctx, r) == 1

\* a2a.routes.ts:153 (and 321, 375): `map.get(id) || []`: the stored array itself when
\* there is one, otherwise a new empty array that only this handler holds
HistoryRef(map, ctx, r) == IF map[ctx] # NoRef THEN map[ctx] ELSE r

\* A handler that records the answer before the question.
PushTurnsAnswerFirst(h, userText, answer) ==
  [heap EXCEPT ![h] = @ \o <<AssistantTurn(answer), UserTurn(userText)>>]

\* a2a.routes.ts:192-193 (and 220-221, 339-340, 402-403): two push calls, no await between
PushTurns(h, userText, answer) ==
  [heap EXCEPT ![h] = @ \o <<UserTurn(userText), AssistantTurn(answer)>>]

\* A transport that hands the newest event over first.
WriteEventReordered(r, ev) == [res EXCEPT ![r].events = <<ev>> \o @]

\* res.write of one server-sent event
WriteEvent(r, ev) == [res EXCEPT ![r].events = Append(@, ev)]

TaskEvent(task) == [type |-> "task", result |-> task]
DoneSentinel == [type |-> "DONE"]

\* a2a.routes.ts:141-173, up to the first await of the for-await at 177
MessageSendStreamStart(r, ctxOpt) ==
  /\ Arrives(r)
  /\ arrived' = r
  /\ LET contextId == IF ctxOpt = NoCtx THEN Uuid(r) ELSE ctxOpt
         userText == TextOf(r)
         task == Task(r, contextId, "working", <<UserMessage(userText)>>)
     IN /\ req' = [req EXCEPT ![r] = [IdleReq EXCEPT !.pc = "streaming", !.route = "a2a",
                       !.method = "message/send", !.taskId = r,
                       !.streaming = TRUE, !.contextId = contextId, !.userText = userText,
                       !.seen = Len(completionOrder[<<"a2a", contextId>>]),
                       !.history = HistoryRef(conversationHistory, contextId, r)]]
        /\ tasks' = [tasks EXCEPT ![r] = task]
        /\ res' = [res EXCEPT ![r].headersSent = TRUE, ![r].status = 200,
                              ![r].events = <<TaskEvent(task)>>]
  /\ UNCHANGED <<conversationHistory, sessionHistory, heap, completionOrder>>

\* a2a.routes.ts:177-189: one iteration of the for-await
MessageSendChunk(r) ==
  /\ req[r].pc = "streaming" /\ req[r].route = "a2a"
  /\ Len(req[r].fullResponse) < MaxChunks
  /\ LET chunk == ChunkAt(Len(req[r].fullResponse) + 1)
         full == req[r].fullResponse \o chunk
         partialTask == Task(r, req[r].contextId, "working",
                             <<UserMessage(req[r].userText), AgentMessage(full)>>)
     IN /\ req' = [req EXCEPT ![r].fullResponse = full]
        /\ res' = WriteEvent(r, TaskEvent(partialTask))
  /\ UNCHANGED <<tasks, conversationHistory, sessionHistory, heap, arrived,
                 completionOrder>>

\* a2a.routes.ts:191-213: the producer's sequence ended; handleMessageSend returns null
MessageSendStreamEnd(r) ==
  /\ req[r].pc = "streaming" /\ req[r].route = "a2a"
  /\ LET h == req[r].history
         ctx == req[r].contextId
         completedTask == Task(r, ctx, "completed",
               <<UserMessage(req[r].userText), AgentMessage(req[r].fullResponse)>>)
     IN /\ heap' = PushTurns(h, req[r].userText, req[r].fullResponse)
        /\ conversationHistory' = [conversationHistory EXCEPT ![ctx] = h]
        /\ tasks' = [tasks EXCEPT ![r] = completedTask]
        /\ res' = [res EXCEPT ![r].events = @ \o <<TaskEvent(completedTask), DoneSentinel>>,
                              ![r].ended = TRUE]
        /\ completionOrder' = [completionOrder EXCEPT ![<<"a2a", ctx>>] = Append(@, r)]
  /\ req' = [req EXCEPT ![r].pc = "done"]
  /\ UNCHANGED <<sessionHistory, arrived>>

\* nilai.service.ts:134-137 rethrows; the for-await at a2a.routes.ts:177 throws out of
\* handleMessageSend into the catch at 118-124, whose res.json runs after flushHeaders
\* (160): setting a header then throws ERR_HTTP_HEADERS_SENT and the handler's promise
\* rejects. Nothing ends the response: it stays open, or the framework's or the
\* runtime's handling of the rejection tears the socket down.
MessageSendStreamFail(r, tornDown) ==
  /\ req[r].pc = "streaming" /\ req[r].route = "a2a"
  /\ req' = [req EXCEPT ![r].pc = "done", ![r].producerFailed = TRUE, ![r].threw = TRUE]
  /\ res' = [res EXCEPT ![r].jsonAfterHeaders = TRUE, ![r].destroyed = tornDown]
  /\ UNCHANGED <<tasks, conversationHistory, sessionHistory, heap, arrived,
                 completionOrder>>

\* a2a.routes.ts:141-153, 217: non-streaming, up to the await of processQuery
MessageSendStart(r, ctxOpt) ==
  /\ Arrives(r)
  /\ arrived' = r
  /\ LET contextId == IF ctxOpt = NoCtx THEN Uuid(r) ELSE ctxOpt
     IN req' = [req EXCEPT ![r] = [IdleReq EXCEPT !.pc = "processing", !.route = "a2a",
                       !.method = "message/send", !.taskId = r,
                       !.contextId = contextId, !.userText = TextOf(r),
                       !.seen = Len(completionOrder[<<"a2a", contextId>>]),
                       !.history = HistoryRef(conversationHistory, contextId, r)]]
  /\ UNCHANGED <<tasks, conversationHistory, sessionHistory, heap, res, completionOrder>>

\* a2a.routes.ts:217-236 and the dispatcher's res.json at 115-117
MessageSendReturn(r, responseText) ==
  /\ req[r].pc = "processing" /\ req[r].route = "a2a"
  /\ LET h == req[r].history
         ctx == req[r].contextId
         task == Task(r, ctx, "completed",
               <<UserMessage(req[r].userText), AgentMessage(responseText)>>)
     IN /\ heap' = PushTurns(h, req[r].userText, responseText)
        /\ conversationHistory' = [conversationHistory EXCEPT ![ctx] = h]
        /\ tasks' = [tasks EXCEPT ![r] = task]
        /\ res' = SendJson(r, 200, JsonResult(task))
        /\ completionOrder' = [completionOrder EXCEPT ![<<"a2a", ctx>>] = Append(@, r)]
  /\ req' = [req EXCEPT ![r].pc = "done", ![r].fullResponse = responseText]
  /\ UNCHANGED <<sessionHistory, arrived>>

\* nilai.service.ts:96-99 rethrows; a2a.routes.ts:118-124 answers with -32603
MessageSendFail(r) ==
  /\ req[r].pc = "processing" /\ req[r].route = "a2a"
  /\ req' = [req EXCEPT ![r].pc = "done", ![r].producerFailed = TRUE, ![r].threw = TRUE]
  /\ res' = SendJson(r, 200, JsonError(-32603, "Failed to process medical query securely"))
  /\ UNCHANGED <<tasks, conversationHistory, sessionHistory, heap, arrived,
                 completionOrder>>

\* The caller of an open stream goes away (the socket closes). No handler of
\* a2a.routes.ts listens for 'close' on req or res or tests res.destroyed /
\* res.writableEnded, so nothing but the socket's own state changes; res.write on the
\* closed socket is still called and returns false.
ClientCloses(r) ==
  /\ req[r].streaming /\ res[r].headersSent /\ ~res[r].ended /\ ~res[r].clientClosed
  /\ res' = [res EXCEPT ![r].clientClosed = TRUE]
  /\ UNCHANGED <<tasks, conversationHistory, sessionHistory, heap, arrived, req,
                 completionOrder>>

\* ------------------------------------------------------------------ POST /chat
ChatError500 == [kind |-> "error", code |-> 500, message |-> "Failed to process medical query"]
ChatError400 == [kind |-> "error", code |-> 400, message |-> "Message is required"]
ChatReply(response, sessionId, recordId) ==
  [kind |-> "chat", response |-> response, sessionId |-> sessionId, recordId |-> recordId]

\* a2a.routes.ts:312-315 and 369-372: message missing or not a string
ChatBadRequest(r) ==
  /\ Arrives(r)
  /\ arrived' = r
  /\ req' = [req EXCEPT ![r].pc = "done", ![r].route = "chat"]
  /\ res' = SendJson(r, 400, ChatError400)
  /\ UNCHANGED <<tasks, conversationHistory, sessionHistory, heap, completionOrder>>

\* a2a.routes.ts:310-329 (/chat) and 367-383 (/chat/stream), up to the await of storePrompt
ChatStart(r, sessionOpt, streaming) ==
  /\ Arrives(r)
  /\ arrived' = r
  /\ LET currentSessionId == IF sessionOpt = NoCtx THEN Uuid(r) ELSE sessionOpt
     IN req' = [req EXCEPT ![r] = [IdleReq EXCEPT !.pc = "storingPrompt", !.route = "chat",
                       !.streaming = streaming, !.contextId = currentSessionId,
                       !.userText = TextOf(r),
                       !.seen = Len(completionOrder[<<"chat", currentSessionId>>]),
                       !.history = HistoryRef(sessionHistory, currentSessionId, r)]]
  /\ UNCHANGED <<tasks, conversationHistory, sessionHistory, heap, res, completionOrder>>

\* a2a.routes.ts:324-333 (await processQuery next) and 378-393 (flushHeaders, for-await next)
ChatPromptStored(r) ==
  /\ req[r].pc = "storingPrompt"
  /\ IF req[r].streaming
       THEN /\ req' = [req EXCEPT ![r].pc = "streaming"]
            /\ res' = [res EXCEPT ![r].headersSent = TRUE, ![r].status = 200]
       ELSE /\ req' = [req EXCEPT ![r].pc = "processing"]
            /\ UNCHANGED res
  /\ UNCHANGED <<tasks, conversationHistory, sessionHistory, heap, arrived,
                 completionOrder>>

\* a2a.routes.ts:352-358 (/chat) and 409-413 (/chat/stream): the catch of either route
ChatCatch(r) ==
  IF req[r].streaming
    THEN [res EXCEPT ![r].headersSent = TRUE, ![r].status = 200, ![r].ended = TRUE,
                     ![r].events = Append(@, [type |-> "error"])]
    ELSE SendJson(r, 500, ChatError500)

\* nildb.service.ts:118-155 storePrompt rejects, or 160-180 storeResponse rejects
ChatStoreFail(r) ==
  /\ req[r].pc \in {"storingPrompt", "storingResponse"}
  /\ req' = [req EXCEPT ![r].pc = "done", ![r].threw = TRUE]
  /\ res' = ChatCatch(r)
  /\ UNCHANGED <<tasks, conversationHistory, sessionHistory, heap, arrived,
                 completionOrder>>

\* a2a.routes.ts:333-336: processQuery returned, await storeResponse next
ChatProcessed(r, response) ==
  /\ req[r].pc = "processing" /\ req[r].route = "chat"
  /\ req' = [req EXCEPT ![r].pc = "storingResponse", ![r].fullResponse = response]
  /\ UNCHANGED <<tasks, conversationHistory, sessionHistory, heap, arrived, res,
                 completionOrder>>

\* a2a.routes.ts:393-396: one iteration of the for-await of /chat/stream
ChatStreamChunk(r) ==
  /\ req[r].pc = "streaming" /\ req[r].route = "chat"
  /\ Len(req[r].fullResponse) < MaxChunks
  /\ LET chunk == ChunkAt(Len(req[r].fullResponse) + 1)
     IN /\ req' = [req EXCEPT ![r].fullResponse = @ \o chunk]
        /\ res' = WriteEvent(r, [type |-> "chunk", chunk |-> chunk,
                                 sessionId |-> req[r].contextId])
  /\ UNCHANGED <<tasks, conversationHistory, sessionHistory, heap, arrived,
                 completionOrder>>

\* a2a.routes.ts:396-399: the producer's sequence ended, await storeResponse next
ChatStreamProduced(r) ==
  /\ req[r].pc = "streaming" /\ req[r].route = "chat"
  /\ req' = [req EXCEPT ![r].pc = "storingResponse"]
  /\ UNCHANGED <<tasks, conversationHistory, sessionHistory, heap, arrived, res,
                 completionOrder>>

\* nilai.service.ts:96-99 / 134-137 rethrow into the route's catch
ChatProducerFail(r) ==
  /\ req[r].pc \in {"processing", "streaming"} /\ req[r].route = "chat"
  /\ req' = [req EXCEPT ![r].pc = "done", ![r].producerFailed = TRUE, ![r].threw = TRUE]
  /\ res' = ChatCatch(r)
  /\ UNCHANGED <<tasks, conversationHistory, sessionHistory, heap, arrived,
                 completionOrder>>

\* a2a.routes.ts:336-351 (/chat) and 399-408 (/chat/stream): storeResponse resolved
ChatResponseStored(r) ==
  /\ req[r].pc = "storingResponse"
  /\ LET h == req[r].history
         sid == req[r].contextId
     IN /\ heap' = PushTurns(h, req[r].userText, req[r].fullResponse)
        /\ sessionHistory' = [sessionHistory EXCEPT ![sid] = h]
        /\ res' = IF req[r].streaming
                    THEN [res EXCEPT ![r].ended = TRUE,
                            ![r].events = Append(@, [type |-> "done", recordId |-> Uuid(r),
                                                     sessionId |-> sid])]
                    ELSE SendJson(r, 200, ChatReply(req[r].fullResponse, sid, Uuid(r)))
        /\ completionOrder' = [completionOrder EXCEPT ![<<"chat", sid>>] = Append(@, r)]
  /\ req' = [req EXCEPT ![r].pc = "done"]
  /\ UNCHANGED <<tasks, conversationHistory, arrived>>

\* ==================================================================
\* The request orchestrator: ChatInterface in frontend/components/header.tsx
\* (impl = "header") and its copy unnamed/part_001 (impl = "part001").
\* A handler runs synchronously up to its next await; the values a handler reads
\* from React state are those of the render that created it (its closure), however
\* the state changes while it is suspended.
\* ==================================================================
MaxActions == 3    \* user actions (submissions and authorization clicks) per behaviour

\* What the user types (trimmed, non-empty). The handlers copy the text and never
\* look into it: the s-th submission carries a text of its own, so that every
\* request and every pending message names the submission it came from.
InputOf(s) == <<"m", s>>
Msgs == {InputOf(s) : s \in 1..MaxActions}
Balances == {0, 10000, 20000}        \* results of balanceOf
Times == {1000}                      \* Math.floor(Date.now() / 1000)
NoMsg == <<"null", 0>>
NoInfo == [x402Version |-> 0]
NoHeader == [x402Version |-> 0]
NoError == "null"

\* header.tsx:394-402, part_001:160-168: the requirement of the default challenge
DefaultRequirement ==
  [scheme |-> "exact", network |-> "eip155:84532", amount |-> 10000,
   asset |-> "0x036C", payTo |-> "0xD202", maxTimeoutSeconds |-> 300,
   extra |-> [name |-> "USDC", version |-> "2"]]

\* header.tsx:386-403 and part_001:156-169: the challenge built locally
DefaultChallenge(i) ==
  [x402Version |-> 2, error |-> "Payment required",
   resource |-> [url |-> "API_URL/api/chat",
                 description |-> IF i = "header" THEN "Private Medical AI Query" ELSE "Query",
                 mimeType |-> "application/json"],
   accepts |-> <<DefaultRequirement>>]

\* What the service may offer: its own payee and price, one or two requirements, or none.
ServerResource ==
  [url |-> "https://agent/api/chat", description |-> "Medical query", mimeType |-> "application/json"]
ServerRequirement == [DefaultRequirement EXCEPT !.payTo = "0xBEEF", !.amount = 20000]
OtherRequirement == [DefaultRequirement EXCEPT !.payTo = "0xCAFE", !.maxTimeoutSeconds = 60]
ServerChallenge(accepts) ==
  [x402Version |-> 2, error |-> "Payment required", resource |-> ServerResource,
   accepts |-> accepts]
\* A decoded challenge is whatever JSON the service sent: a requirement whose
\* maxTimeoutSeconds is negative, and one whose network names no chain id and whose
\* maxTimeoutSeconds is 0.
ExpiredRequirement == [ServerRequirement EXCEPT !.maxTimeoutSeconds = 0 - 700]
UnparsableRequirement ==
  [ServerRequirement EXCEPT !.network = "base-sepolia", !.maxTimeoutSeconds = 0]
\* challenges a response body may carry
BodyChallenges ==
  {ServerChallenge(<<ServerRequirement>>), ServerChallenge(<<OtherRequirement, ServerRequirement>>),
   ServerChallenge(<<>>)}
\* challenges the PAYMENT-REQUIRED header may carry
ServerChallenges ==
  BodyChallenges \cup {ServerChallenge(<<ExpiredRequirement>>),
                       ServerChallenge(<<UnparsableRequirement>>)}

\* The responses fetch can produce. A 402 carries the challenge in a header that
\* decodes ("ok"), in a header that does not decode ("garbled"), or carries no
\* header and possibly the challenge in its body.
Responses402 ==
  {[kind |-> "402", hdr |-> "ok", info |-> c] : c \in ServerChallenges}
    \cup {[kind |-> "402", hdr |-> "garbled", info |-> NoInfo]}
    \cup {[kind |-> "402", hdr |-> "absent", info |-> c] : c \in BodyChallenges \cup {NoInfo}}
HttpResponses ==
  Responses402 \cup {[kind |-> "ok", response |-> "answer"], [kind |-> "notOk"], [kind |-> "networkError"]}

VARIABLES
  impl,             \* which copy of ChatInterface runs
  messages,         \* useState<Message[]>
  isLoading, error, paymentRequired, pendingMessage, paymentInfo,
  opc,              \* where the running handler is suspended: idle, fetch, balance, sign
  cl,               \* the running handler's closure and locals
  sentLog,          \* every HTTP request fetch has sent, in order, each with the
                    \* response that had been handled last when it was sent
  nonces,           \* number of nonces drawn from crypto.getRandomValues so far
  nSubmit, nPay,    \* history: user submissions / authorization clicks so far
  sigRequests,      \* history: per submission, signatures asked of the wallet
  pendingSub,       \* history: the submission pendingMessage came from
  last,             \* history: the last response sendMessage handled
  balanceRead       \* history: what the last readContract gave and the amount asked

orchVars == <<impl, messages, isLoading, error, paymentRequired, pendingMessage, paymentInfo,
              opc, cl, sentLog, nonces, nSubmit, nPay, sigRequests, pendingSub, last,
              balanceRead>>

vars == <<srvVars, orchVars>>

NoClosure == [messageContent |-> NoMsg]
NoLast == [kind |-> "none"]
NoRead == [kind |-> "none"]
Subs == 1..MaxActions

InitOrchWith(i) ==
  /\ impl = i
  /\ messages = <<>>
  /\ isLoading = FALSE /\ error = NoError /\ paymentRequired = FALSE
  /\ pendingMessage = NoMsg /\ paymentInfo = NoInfo
  /\ opc = "idle"
  /\ cl = NoClosure
  /\ sentLog = <<>>
  /\ nonces = 0
  /\ nSubmit = 0 /\ nPay = 0
  /\ sigRequests = [s \in Subs |-> 0]
  /\ pendingSub = 0
  /\ last = NoLast
  /\ balanceRead = NoRead

UserActions == nSubmit + nPay

\* page.tsx:45-49: the session id is drawn once when the page mounts and handed down
\* as a prop; nothing sets it again.
SessionId == "session-1"

\* header.tsx:330-333, part_001:140: JSON.stringify({ message: messageContent, sessionId })
Body(messageContent) == [message |-> messageContent, sessionId |-> SessionId]

\* A sendMessage that does not mark the interface as loading.
SendMessageStartNotLoading(messageContent, paymentHeader, info, sub) ==
  /\ messages' = IF paymentHeader = NoHeader
                   THEN Append(messages, [role |-> "user", content |-> messageContent])
                   ELSE messages
  /\ isLoading' = FALSE
  /\ error' = NoError
  /\ paymentRequired' = FALSE
  /\ sentLog' = Append(sentLog, [message |-> messageContent, header |-> paymentHeader,
                                 body |-> Body(messageContent),
                                 sub |-> sub, after |-> last])
  /\ cl' = [messageContent |-> messageContent, paymentHeader |-> paymentHeader,
            paymentInfo |-> info, sub |-> sub]
  /\ opc' = "fetch"
  /\ UNCHANGED last

\* header.tsx:289-334, part_001:114-141: sendMessage up to the await of fetch.
\* `info` is the paymentInfo of the render whose sendMessage this is.
SendMessageStart(messageContent, paymentHeader, info, sub) ==
  /\ messages' = IF paymentHeader = NoHeader
                   THEN Append(messages, [role |-> "user", content |-> messageContent])
                   ELSE messages
  /\ isLoading' = TRUE
  /\ error' = NoError
  /\ paymentRequired' = FALSE
  /\ sentLog' = Append(sentLog, [message |-> messageContent, header |-> paymentHeader,
                                 body |-> Body(messageContent),
                                 sub |-> sub, after |-> last])
  /\ cl' = [messageContent |-> messageContent, paymentHeader |-> paymentHeader,
            paymentInfo |-> info, sub |-> sub]
  /\ opc' = "fetch"
  /\ UNCHANGED last

\* header.tsx:279-286, part_001:107-112
HandleSubmit(input) ==
  /\ ~isLoading
  /\ UserActions < MaxActions
  /\ nSubmit' = nSubmit + 1
  /\ SendMessageStart(input, NoHeader, paymentInfo, nSubmit + 1)
  /\ UNCHANGED <<impl, pendingMessage, paymentInfo, nonces, nPay, sigRequests,
                 pendingSub, balanceRead>>

\* header.tsx:356-404: what paymentInfo is after a 402. `if (!paymentInfo)` reads the
\* closure's paymentInfo, not what setPaymentInfo has just stored.
InfoAfter402Header(resp, closureInfo, current) ==
  LET offered == IF resp.info # NoInfo THEN resp.info ELSE current
  IN IF closureInfo = NoInfo THEN DefaultChallenge("header") ELSE offered

\* part_001:148-170: decode the header when there is one, default only when there is none
InfoAfter402Part001(resp, closureInfo, current) ==
  CASE resp.hdr = "ok" -> resp.info
    [] resp.hdr = "garbled" -> current
    [] OTHER -> DefaultChallenge("part001")

InfoAfter402(resp, closureInfo, current) ==
  IF impl = "header" THEN InfoAfter402Header(resp, closureInfo, current)
                     ELSE InfoAfter402Part001(resp, closureInfo, current)

\* A 402 handler that sends the same request again by itself.
On402AutoRetry(resp) ==
  /\ paymentInfo' = InfoAfter402(resp, cl.paymentInfo, paymentInfo)
  /\ sentLog' = Append(sentLog, [message |-> cl.messageContent, header |-> cl.paymentHeader,
                                 body |-> Body(cl.messageContent),
                                 sub |-> cl.sub, after |-> last])
  /\ opc' = "fetch"
  /\ UNCHANGED <<messages, pendingMessage, pendingSub, paymentRequired, error, isLoading, cl>>

\* A 402 handler that keeps the pending message it already has.
On402KeepPending(resp) ==
  /\ paymentInfo' = InfoAfter402(resp, cl.paymentInfo, paymentInfo)
  /\ pendingMessage' = IF pendingMessage = NoMsg THEN cl.messageContent ELSE pendingMessage
  /\ pendingSub' = IF pendingMessage = NoMsg THEN cl.sub ELSE pendingSub
  /\ paymentRequired' = TRUE
  /\ error' = "Payment required to continue."
  /\ isLoading' = FALSE
  /\ opc' = "idle"
  /\ cl' = NoClosure
  /\ UNCHANGED <<messages, sentLog>>

\* header.tsx:339-410 with the finally at 434-436; part_001:143-175 with 192-194
On402(resp) ==
  /\ paymentInfo' = InfoAfter402(resp, cl.paymentInfo, paymentInfo)
  /\ pendingMessage' = cl.messageContent
  /\ pendingSub' = cl.sub
  /\ paymentRequired' = TRUE
  /\ error' = "Payment required to continue."
  /\ isLoading' = FALSE
  /\ opc' = "idle"
  /\ cl' = NoClosure
  /\ UNCHANGED <<messages, sentLog>>

\* A failure handler that puts the error text into the transcript as an answer.
OnFailureAsAnswer(resp) ==
  /\ error' = IF resp.kind = "notOk" THEN "Failed to get response" ELSE "An error occurred"
  /\ messages' = Append(messages, [role |-> "assistant", content |-> error'])
  /\ isLoading' = FALSE
  /\ opc' = "idle"
  /\ cl' = NoClosure
  /\ UNCHANGED <<paymentRequired, pendingMessage, paymentInfo, pendingSub, sentLog>>

\* A failure handler that forgets the pending message and the challenge.
OnFailureForgets(resp) ==
  /\ error' = IF resp.kind = "notOk" THEN "Failed to get response" ELSE "An error occurred"
  /\ pendingMessage' = NoMsg
  /\ paymentInfo' = NoInfo
  /\ isLoading' = FALSE
  /\ opc' = "idle"
  /\ cl' = NoClosure
  /\ UNCHANGED <<messages, paymentRequired, pendingSub, sentLog>>

\* header.tsx:412-416 and 431-436 (part_001:177, 190-194): a failure status, or fetch or
\* response.json() threw
OnFailure(resp) ==
  /\ error' = IF resp.kind = "notOk" THEN "Failed to get response" ELSE "An error occurred"
  /\ isLoading' = FALSE
  /\ opc' = "idle"
  /\ cl' = NoClosure
  /\ UNCHANGED <<messages, paymentRequired, pendingMessage, paymentInfo, pendingSub, sentLog>>

\* header.tsx:418-430 and 434-436; part_001:179-189 and 192-194
OnSuccess(resp) ==
  /\ messages' = Append(messages, [role |-> "assistant", content |-> resp.response])
  /\ pendingMessage' = NoMsg
  /\ paymentInfo' = NoInfo
  /\ isLoading' = FALSE
  /\ opc' = "idle"
  /\ cl' = NoClosure
  /\ UNCHANGED <<error, paymentRequired, pendingSub, sentLog>>

\* sendMessage resumes when fetch settles
SendMessageResponse(resp) ==
  /\ opc = "fetch"
  /\ CASE resp.kind = "402" -> On402(resp)
       [] resp.kind = "ok" -> OnSuccess(resp)
       [] OTHER -> OnFailure(resp)
  /\ last' = [kind |-> resp.kind, withHeader |-> (cl.paymentHeader # NoHeader),
              hdr |-> IF resp.kind = "402" THEN resp.hdr ELSE "none",
              info |-> IF resp.kind = "402" THEN resp.info ELSE NoInfo]
  /\ UNCHANGED <<impl, nonces, nSubmit, nPay, sigRequests, balanceRead>>

\* ------------------------------------------------------------------ handlePayment
PayerAddress == "0xA11CE"
ReadThrows == 0 - 1      \* publicClient.readContract rejected

\* A nonce kept from the first authorization and used again by later ones.
StoredNonce(drawn) == 1

\* header.tsx:500-502, part_001:225-227: 32 bytes from crypto.getRandomValues. The
\* generator is taken to never repeat a value: the n-th draw is the value n.
NewNonce(drawn) == drawn + 1

NaN == 0 - 1             \* parseInt of something that is no number
\* String.prototype.split(':') on the networks that occur
Split(network) ==
  CASE network = "eip155:84532" -> <<"eip155", "84532">>
    [] network = "base-sepolia" -> <<"base-sepolia">>
    [] OTHER -> <<network>>
\* parseInt: undefined (no second part) and non-digits give NaN
ParseInt(parts, i) ==
  IF i > Len(parts) THEN NaN
  ELSE IF parts[i] = "84532" THEN 84532 ELSE NaN

\* header.tsx:507, part_001:231: parseInt(network.split(':')[1]); nothing tests the result
ChainId(network) == ParseInt(Split(network), 2)

\* header.tsx:495-497, part_001:222-224
ValidAfter(now) == now - 600
ValidBefore(now, paymentReq) ==
  now + (IF paymentReq.maxTimeoutSeconds = 0 THEN 300 ELSE paymentReq.maxTimeoutSeconds)

\* header.tsx:528-535 and 557-564, part_001:246-253 and 259-261
Authorization(paymentReq, now, nonce) ==
  [from |-> PayerAddress, to |-> paymentReq.payTo, value |-> paymentReq.amount,
   validAfter |-> ValidAfter(now), validBefore |-> ValidBefore(now, paymentReq),
   nonce |-> nonce]

\* header.tsx:510-515, part_001:234: the EIP-712 domain
Domain(paymentReq) ==
  [name |-> paymentReq.extra.name, version |-> paymentReq.extra.version,
   chainId |-> ChainId(paymentReq.network), verifyingContract |-> paymentReq.asset]

\* walletClient.signTypedData: the signature is a function of signer, domain and message
Signature(paymentReq, authorization) ==
  [signer |-> PayerAddress, domain |-> Domain(paymentReq), message |-> authorization]

\* header.tsx:567-583, part_001:256-269: the AuthorizedRequest put in PAYMENT-SIGNATURE
PaymentPayload(info, paymentReq, authorization) ==
  [x402Version |-> 2,
   payload |-> [authorization |-> authorization,
                signature |-> Signature(paymentReq, authorization)],
   resource |-> info.resource,
   accepted |-> paymentReq]

\* header.tsx:592-608, part_001:271-275: the catch of handlePayment
PaymentCatch(message) ==
  /\ error' = IF impl = "header" THEN message ELSE "Payment failed / rejected"
  /\ isLoading' = FALSE
  /\ opc' = "idle"
  /\ cl' = NoClosure

\* header.tsx:440-484, part_001:197-217: handlePayment up to the await of readContract.
\* The prompt is rendered while paymentRequired and its button is disabled while
\* isLoading (header.tsx:679-684, 880-881). clientsReady: the wagmi hooks of this
\* render have an address, a wallet client and a public client.
HandlePayment(clientsReady) ==
  /\ paymentRequired /\ ~isLoading
  /\ UserActions < MaxActions
  /\ nPay' = nPay + 1
  /\ LET missing == ~clientsReady \/ pendingMessage = NoMsg
         noInfo == paymentInfo = NoInfo
         noAccepts == paymentInfo # NoInfo /\ Len(paymentInfo.accepts) = 0
         refused == IF impl = "header" THEN missing \/ noInfo \/ noAccepts
                                       ELSE missing \/ noInfo
     IN IF refused
          THEN /\ error' = IF missing THEN "Please connect your wallet first"
                                      ELSE "Payment information not available"
               /\ UNCHANGED <<isLoading, opc, cl>>
          ELSE IF noAccepts
            THEN \* part_001:203-208: accepts[0] is undefined, BigInt(paymentReq.amount) throws
                 PaymentCatch("Payment failed")
            ELSE /\ isLoading' = TRUE
                 /\ error' = IF impl = "header" THEN NoError ELSE error
                 /\ opc' = "balance"
                 /\ cl' = [messageContent |-> pendingMessage, paymentInfo |-> paymentInfo,
                           paymentReq |-> paymentInfo.accepts[1], sub |-> pendingSub]
  /\ UNCHANGED <<impl, messages, paymentRequired, pendingMessage, paymentInfo,
                 sentLog, nonces, nSubmit, sigRequests, pendingSub, last, balanceRead>>

\* A guard that lets every balance through.
GuardSkipped(balance, amount) == FALSE

\* header.tsx:487, part_001:219: if (balance < amount) throw
InsufficientFunds(balance, amount) == balance < amount

\* header.tsx:479-552, part_001:212-254: readContract settled; the balance guard, then
\* the authorization is built and signTypedData is called
BalanceRead(balance, now) ==
  /\ opc = "balance"
  /\ balanceRead' = IF balance = ReadThrows THEN [kind |-> "threw"]
                    ELSE [kind |-> "read", balance |-> balance,
                          amount |-> cl.paymentReq.amount]
  /\ IF balance = ReadThrows \/ InsufficientFunds(balance, cl.paymentReq.amount)
       THEN /\ PaymentCatch(IF balance = ReadThrows THEN "Payment failed"
                                                   ELSE "Insufficient USDC balance")
            /\ UNCHANGED <<nonces, sigRequests>>
       ELSE /\ nonces' = nonces + 1
            /\ cl' = [cl EXCEPT !.messageContent = cl.messageContent] @@
                     [authorization |-> Authorization(cl.paymentReq, now, NewNonce(nonces))]
            /\ sigRequests' = [sigRequests EXCEPT ![cl.sub] = @ + 1]
            /\ opc' = "sign"
            /\ UNCHANGED <<error, isLoading>>
  /\ UNCHANGED <<impl, messages, paymentRequired, pendingMessage, paymentInfo,
                 sentLog, nSubmit, nPay, pendingSub, last>>

\* header.tsx:547-590, part_001:233-269: signTypedData resolved, the request is resent
SignResolved ==
  /\ opc = "sign"
  /\ SendMessageStart(cl.messageContent,
                      PaymentPayload(cl.paymentInfo, cl.paymentReq, cl.authorization),
                      cl.paymentInfo, cl.sub)
  /\ UNCHANGED <<impl, pendingMessage, paymentInfo, nonces, nSubmit, nPay,
                 sigRequests, pendingSub, balanceRead>>

\* header.tsx:592-608, part_001:271-275: the wallet declined or the user aborted
SignRejected ==
  /\ opc = "sign"
  /\ PaymentCatch("Signature was rejected by user")
  /\ UNCHANGED <<impl, messages, paymentRequired, pendingMessage, paymentInfo,
                 sentLog, nonces, nSubmit, nPay, sigRequests, pendingSub, last,
                 balanceRead>>

\* ------------------------------------------------------------------ specifications
\* A step of the orchestrator leaves the server alone, and the reverse.
Orch(A) == A /\ UNCHANGED srvVars
Srv(A) == A /\ UNCHANGED orchVars

NextOrch ==
  \/ \E input \in {InputOf(nSubmit + 1)} : Orch(HandleSubmit(input))
  \/ \E resp \in HttpResponses : Orch(SendMessageResponse(resp))
  \/ \E ready \in BOOLEAN : Orch(HandlePayment(ready))
  \/ \E b \in Balances \cup {ReadThrows}, now \in Times : Orch(BalanceRead(b, now))
  \/ Orch(SignResolved)
  \/ Orch(SignRejected)

Next ==
  \/ \E r \in Req, method \in Methods : Srv(A2AInvalidRequest(r, method))
  \/ \E r \in Req : Srv(A2AMethodNotFound(r))
  \/ \E r \in Req, t \in Req \cup {UnknownTask} : Srv(HandleTasksGet(r, t))
  \/ \E r \in Req, t \in Req \cup {UnknownTask} : Srv(HandleTasksCancel(r, t))
  \/ \E r \in Req, c \in NamedCtx \cup {NoCtx} : Srv(MessageSendStreamStart(r, c))
  \/ \E r \in Req : Srv(MessageSendChunk(r))
  \/ \E r \in Req : Srv(MessageSendStreamEnd(r))
  \/ \E r \in Req, tornDown \in BOOLEAN : Srv(MessageSendStreamFail(r, tornDown))
  \/ \E r \in Req, c \in NamedCtx \cup {NoCtx} : Srv(MessageSendStart(r, c))
  \/ \E r \in Req, a \in Responses : Srv(MessageSendReturn(r, a))
  \/ \E r \in Req : Srv(MessageSendFail(r))
  \/ \E r \in Req : Srv(ChatBadRequest(r))
  \/ \E r \in Req, c \in NamedCtx \cup {NoCtx}, st \in BOOLEAN : Srv(ChatStart(r, c, st))
  \/ \E r \in Req : Srv(ChatPromptStored(r))
  \/ \E r \in Req : Srv(ChatStoreFail(r))
  \/ \E r \in Req, a \in Responses : Srv(ChatProcessed(r, a))
  \/ \E r \in Req : Srv(ChatStreamChunk(r))
  \/ \E r \in Req : Srv(ChatStreamProduced(r))
  \/ \E r \in Req : Srv(ChatProducerFail(r))
  \/ \E r \in Req : Srv(ChatResponseStored(r))

\* The server, with no orchestrator activity.
Init == InitSrv /\ InitOrchWith("header")
Spec == Init /\ [][Next]_vars

\* POST /a2a alone: the chat routes share no state with it (the task registry and
\* conversationHistory are touched by handleMessageSend, handleTasksGet and
\* handleTasksCancel only).
NextA2A ==
  \/ \E r \in Req, method \in Methods : Srv(A2AInvalidRequest(r, method))
  \/ \E r \in Req : Srv(A2AMethodNotFound(r))
  \/ \E r \in Req, t \in Req \cup {UnknownTask} : Srv(HandleTasksGet(r, t))
  \/ \E r \in Req, t \in Req \cup {UnknownTask} : Srv(HandleTasksCancel(r, t))
  \/ \E r \in Req, c \in NamedCtx \cup {NoCtx} : Srv(MessageSendStreamStart(r, c))
  \/ \E r \in Req : Srv(MessageSendChunk(r))
  \/ \E r \in Req : Srv(MessageSendStreamEnd(r))
  \/ \E r \in Req, tornDown \in BOOLEAN : Srv(MessageSendStreamFail(r, tornDown))
  \/ \E r \in Req, c \in NamedCtx \cup {NoCtx} : Srv(MessageSendStart(r, c))
  \/ \E r \in Req, a \in Responses : Srv(MessageSendReturn(r, a))
  \/ \E r \in Req : Srv(MessageSendFail(r))
SpecA2A == Init /\ [][NextA2A]_vars

\* The two streaming transports (message/send with accept: text/event-stream, and
\* /chat/stream), with tasks/cancel as the only other request.
NextStreams ==
  \/ \E r \in Req, t \in Req \cup {UnknownTask} : Srv(HandleTasksCancel(r, t))
  \/ \E r \in Req, c \in NamedCtx \cup {NoCtx} : Srv(MessageSendStreamStart(r, c))
  \/ \E r \in Req : Srv(MessageSendChunk(r))
  \/ \E r \in Req : Srv(MessageSendStreamEnd(r))
  \/ \E r \in Req, tornDown \in BOOLEAN : Srv(MessageSendStreamFail(r, tornDown))
  \/ \E r \in Req, c \in NamedCtx \cup {NoCtx} : Srv(ChatStart(r, c, TRUE))
  \/ \E r \in Req : Srv(ChatPromptStored(r))
  \/ \E r \in Req : Srv(ChatStoreFail(r))
  \/ \E r \in Req : Srv(ChatStreamChunk(r))
  \/ \E r \in Req : Srv(ChatStreamProduced(r))
  \/ \E r \in Req : Srv(ChatProducerFail(r))
  \/ \E r \in Req : Srv(ChatResponseStored(r))
SpecStreams == Init /\ [][NextStreams]_vars

\* The streaming transports with callers that may go away mid-stream.
NextClose ==
  \/ NextStreams
  \/ \E r \in Req : Srv(ClientCloses(r))
SpecClose == Init /\ [][NextClose]_vars

\* The handlers that read or write a turn list: message/send and the chat routes, on
\* both transports. The other requests (an invalid envelope, an unknown method,
\* tasks/get, tasks/cancel, a /chat body without a message) touch no turn list.
NextTurns ==
  \/ \E r \in Req, c \in NamedCtx \cup {NoCtx} : Srv(MessageSendStreamStart(r, c))
  \/ \E r \in Req : Srv(MessageSendChunk(r))
  \/ \E r \in Req : Srv(MessageSendStreamEnd(r))
  \/ \E r \in Req, tornDown \in BOOLEAN : Srv(MessageSendStreamFail(r, tornDown))
  \/ \E r \in Req, c \in NamedCtx \cup {NoCtx} : Srv(MessageSendStart(r, c))
  \/ \E r \in Req, a \in Responses : Srv(MessageSendReturn(r, a))
  \/ \E r \in Req : Srv(MessageSendFail(r))
  \/ \E r \in Req, c \in NamedCtx \cup {NoCtx}, st \in BOOLEAN : Srv(ChatStart(r, c, st))
  \/ \E r \in Req : Srv(ChatPromptStored(r))
  \/ \E r \in Req : Srv(ChatStoreFail(r))
  \/ \E r \in Req, a \in Responses : Srv(ChatProcessed(r, a))
  \/ \E r \in Req : Srv(ChatStreamChunk(r))
  \/ \E r \in Req : Srv(ChatStreamProduced(r))
  \/ \E r \in Req : Srv(ChatProducerFail(r))
  \/ \E r \in Req : Srv(ChatResponseStored(r))
SpecTurns == Init /\ [][NextTurns]_vars

\* The orchestrator (either copy) against a service that may answer anything.
InitOrch == InitSrv /\ \E i \in {"header", "part001"} : InitOrchWith(i)
SpecOrch == InitOrch /\ [][NextOrch]_vars

\* ==================================================================
\* Properties
\* ==================================================================
\* A handler is suspended only while the interface shows it is loading.
SuspendedWhileLoading == opc # "idle" => isLoading

\* ------------------------------------------------------------------ C1
\* C1: once a task's status is completed, failed or canceled, no later step changes it.
C1_TerminalStatusIsFinal ==
  [][\A t \in Req :
       (tasks[t] # NoTask /\ tasks[t].status \in Terminal)
         => tasks'[t].status = tasks[t].status]_vars

\* ------------------------------------------------------------------ C2
Store(route) == IF route = "a2a" THEN conversationHistory ELSE sessionHistory
TurnList(route, ctx) ==
  IF Store(route)[ctx] = NoRef THEN <<>> ELSE heap[Store(route)[ctx]]
Key(r) == <<req[r].route, req[r].contextId>>
Completed(r) ==
  /\ req[r].contextId # NoCtx
  /\ \E i \in 1..Len(completionOrder[Key(r)]) : completionOrder[Key(r)][i] = r
Pos(r) == CHOOSE i \in 1..Len(completionOrder[Key(r)]) : completionOrder[Key(r)][i] = r
\* where in a turn list the (user, assistant) pair of request r starts
PairAt(list, r) ==
  {i \in 1..(Len(list) - 1) :
     /\ list[i] = UserTurn(req[r].userText)
     /\ list[i + 1] = AssistantTurn(req[r].fullResponse)}
\* r1 arrived first and had not completed when r2 arrived
Overlapping(r1, r2) ==
  /\ r1 < r2 /\ Completed(r1) /\ Completed(r2)
  /\ Key(r1) = Key(r2)
  /\ Pos(r1) > req[r2].seen

\* C2: two submissions on the same context whose processing overlapped, both completed:
\* the context's turn list holds the pair of each exactly once, in completion order.
C2_ConcurrentTurnsKept ==
  \A r1, r2 \in Req :
    Overlapping(r1, r2) =>
      LET list == TurnList(req[r1].route, req[r1].contextId)
          p1 == PairAt(list, r1)
          p2 == PairAt(list, r2)
      IN /\ Cardinality(p1) = 1 /\ Cardinality(p2) = 1
         /\ \A i \in p1, j \in p2 : (i < j) <=> (Pos(r1) < Pos(r2))

\* ------------------------------------------------------------------ C3
\* C3: a message/send whose producer failed has its task in the registry with status failed.
C3_FailedProducerMarksTaskFailed ==
  \A r \in Req :
    (req[r].route = "a2a" /\ req[r].producerFailed)
      => (tasks[r] # NoTask /\ tasks[r].status = "failed")

\* ------------------------------------------------------------------ C4
StreamOpened(r) == req[r].streaming /\ res[r].headersSent
LastEvent(r) == res[r].events[Len(res[r].events)]
TerminalEventSent(r) ==
  /\ Len(res[r].events) > 0
  /\ IF req[r].route = "a2a"
       THEN /\ Len(res[r].events) >= 2
            /\ LastEvent(r) = DoneSentinel
            /\ res[r].events[Len(res[r].events) - 1].type = "task"
            /\ res[r].events[Len(res[r].events) - 1].result.status \in Terminal
       ELSE LastEvent(r).type \in {"done", "error"}

\* C4: a stream that was opened and whose handler has run to its end (nothing more
\* will be written) has emitted a terminal event and ended the channel.
C4_OpenedStreamIsTerminated ==
  \A r \in Req :
    (StreamOpened(r) /\ req[r].pc = "done") => (TerminalEventSent(r) /\ res[r].ended)

\* ------------------------------------------------------------------ C5
\* C5: after the resent (authorized) request was answered with 402, the orchestrator
\* is not back in the "authorization needed" state.
C5_Second402EndsInFailed ==
  (last.kind = "402" /\ last.withHeader /\ opc = "idle") => ~paymentRequired

\* ------------------------------------------------------------------ C6
PlainSent == Cardinality({i \in 1..Len(sentLog) : sentLog[i].header = NoHeader})
AuthorizedSent == Cardinality({i \in 1..Len(sentLog) : sentLog[i].header # NoHeader})
RECURSIVE SumTo(_, _)
SumTo(f, n) == IF n = 0 THEN 0 ELSE f[n] + SumTo(f, n - 1)
SignaturesRequested == SumTo(sigRequests, MaxActions)

\* C6: no request is sent without a user action of its own: plain requests are
\* exactly the submissions, authorized requests are at most the signatures the
\* authorization clicks asked for, and requests never outnumber user actions.
C6_NoAutomaticRetry ==
  /\ PlainSent = nSubmit
  /\ AuthorizedSent <= SignaturesRequested
  /\ SignaturesRequested <= nPay
  /\ Len(sentLog) <= nSubmit + nPay

\* a resend was answered with 402 and that response has been handled
C6_Witness ==
  last.kind = "402" /\ last.withHeader /\ opc = "idle" /\ AuthorizedSent = 1

\* ------------------------------------------------------------------ C7
AuthorizedSentFor(s) ==
  Cardinality({i \in 1..Len(sentLog) : sentLog[i].header # NoHeader /\ sentLog[i].sub = s})

\* C7: per user-submitted message, at most one signature is requested from the
\* wallet and at most one authorized request is sent.
C7_OneAuthorizationPerSubmission ==
  \A s \in Subs : sigRequests[s] <= 1 /\ AuthorizedSentFor(s) <= 1

\* ------------------------------------------------------------------ C8
NonceOf(i) == sentLog[i].header.payload.authorization.nonce

\* C8: no two requests the orchestrator sent carry the same nonce or the same
\* signed authorization.
C8_NoncesNeverReused ==
  \A i, j \in 1..Len(sentLog) :
    (i < j /\ sentLog[i].header # NoHeader /\ sentLog[j].header # NoHeader)
      => /\ NonceOf(i) # NonceOf(j)
         /\ sentLog[i].header.payload # sentLog[j].header.payload

\* two authorized requests have been sent
C8_Witness == AuthorizedSent >= 2

\* ------------------------------------------------------------------ C9
\* C9: after a 402 whose challenge decoded, the challenge held is the decoded one,
\* and the authorized request then sent accepts the first requirement the service
\* offered, pays its payee its amount, and names the challenge's resource.
C9_DecodedChallengeIsUsed ==
  /\ (last.kind = "402" /\ last.hdr = "ok" /\ opc = "idle") => paymentInfo = last.info
  /\ \A i \in 1..Len(sentLog) :
       (sentLog[i].header # NoHeader /\ sentLog[i].after.kind = "402"
          /\ sentLog[i].after.hdr = "ok")
         => LET h == sentLog[i].header
                offered == sentLog[i].after.info
            IN /\ Len(offered.accepts) >= 1
               /\ h.accepted = offered.accepts[1]
               /\ h.payload.authorization.to = h.accepted.payTo
               /\ h.payload.authorization.value = h.accepted.amount
               /\ h.resource = offered.resource

\* ------------------------------------------------------------------ C10
\* C10: after a 402 that carried no usable challenge (header absent and nothing in
\* the body, or a header that does not decode), "authorization needed" is shown with
\* a challenge that has at least one requirement.
C10_FallbackChallengeHeld ==
  (/\ last.kind = "402" /\ paymentRequired
   /\ (last.hdr = "garbled" \/ (last.hdr = "absent" /\ last.info = NoInfo)))
    => (paymentInfo # NoInfo /\ Len(paymentInfo.accepts) >= 1)

\* ------------------------------------------------------------------ C11
\* The authorizations built so far: those of the requests sent and the one waiting
\* for its signature.
BuiltAuthorizations ==
  {[authorization |-> sentLog[i].header.payload.authorization,
    requirement |-> sentLog[i].header.accepted] :
     i \in {j \in 1..Len(sentLog) : sentLog[j].header # NoHeader}}
  \cup (IF opc = "sign"
          THEN {[authorization |-> cl.authorization, requirement |-> cl.paymentReq]}
          ELSE {})

\* C11: every authorization built has validAfter < validBefore, with
\* validAfter = now - 600 and validBefore = now + maxTimeoutSeconds of its requirement.
C11_ValidityWindowOrdered ==
  \A b \in BuiltAuthorizations :
    /\ b.authorization.validAfter < b.authorization.validBefore
    /\ b.authorization.validBefore
         = (b.authorization.validAfter + 600) + b.requirement.maxTimeoutSeconds

\* ------------------------------------------------------------------ C12
\* C12: for a requirement whose network gives no chain id, no signature is requested
\* and no authorized request is sent.
C12_UnparsableNetworkNotSigned ==
  \A b \in BuiltAuthorizations : ChainId(b.requirement.network) # NaN

\* ------------------------------------------------------------------ C13
\* request r is handled in this step, as the given method with a well-formed version
Handles(r, method) ==
  /\ req[r].pc = "new" /\ req'[r].pc # "new"
  /\ req'[r].route = "a2a" /\ req'[r].versionOk /\ req'[r].method = method
\* the id request r names is not in the registry when r is handled
NamesUnknownTask(r) ==
  req'[r].taskId \notin Req \/ tasks[req'[r].taskId] = NoTask
StoresUnchanged ==
  UNCHANGED <<tasks, heap, conversationHistory, sessionHistory>>

\* C13: tasks/get and tasks/cancel on an id the registry does not hold answer with a
\* JSON-RPC error and leave the registry and every turn list as they were.
C13_UnknownTaskChangesNothing ==
  [][\A r \in Req :
       ((Handles(r, "tasks/get") \/ Handles(r, "tasks/cancel")) /\ NamesUnknownTask(r))
         => /\ res'[r].ended /\ res'[r].json.kind = "error"
            /\ StoresUnchanged]_vars

\* a tasks/cancel on an unknown id was answered while the registry held a task
C13_Witness ==
  \E r \in Req :
    /\ req[r].pc = "done" /\ req[r].method = "tasks/cancel" /\ req[r].versionOk
    /\ req[r].threw
    /\ res[r].json.kind = "error"
    /\ \E t \in Req : tasks[t] # NoTask

\* ------------------------------------------------------------------ C14
\* the message of the failure a handler of the given method raises
FailureMessage(method) ==
  IF method = "message/send" THEN "Failed to process medical query securely"
                             ELSE "Task not found"
\* the answer request r got is the error of its failure class
ErrorCodeMatchesClass(r) ==
  /\ ~req[r].versionOk => res[r].json = JsonError(-32600, "Invalid Request")
  /\ (req[r].versionOk /\ req[r].method = "tasks/list")
       => res[r].json = JsonError(-32601, "Method not found")
  /\ req[r].threw => res[r].json = JsonError(-32603, FailureMessage(req[r].method))

\* C14: a wrong version is answered -32600 and an unknown method -32601, both without
\* touching the registry or a turn list; a failure raised inside a handler is answered
\* -32603 with the failure's message.
C14_ErrorCodeByFailureClass ==
  /\ [](\A r \in Req : (req[r].route = "a2a" /\ req[r].pc = "done") => ErrorCodeMatchesClass(r))
  /\ [][\A r \in Req :
          (/\ req[r].pc = "new" /\ req'[r].pc # "new" /\ req'[r].route = "a2a"
           /\ (~req'[r].versionOk \/ req'[r].method = "tasks/list"))
            => StoresUnchanged]_vars

\* ------------------------------------------------------------------ C15
\* the events written to request r's stream in this step
NewEvents(r) ==
  {res'[r].events[i] : i \in (Len(res[r].events) + 1)..Len(res'[r].events)}

\* C15: once the task of a running stream is canceled in the registry, the stream
\* writes no further event that shows the task working or completed.
C15_CanceledStreamStopsReporting ==
  [][\A r \in Req :
       (/\ req[r].route = "a2a" /\ req[r].pc = "streaming"
        /\ tasks[r] # NoTask /\ tasks[r].status = "canceled")
         => \A ev \in NewEvents(r) :
              ev.type = "task" => ev.result.status \notin {"working", "completed"}]_vars

\* ------------------------------------------------------------------ C16
\* the producer of request r has been invoked and has not finished
ProducerRunning(r) ==
  req[r].route = "a2a" /\ req[r].pc \in {"streaming", "processing"}

\* C16: while the producer of a message/send is running, the registry holds the
\* request's task with its initiating user message, in working (or canceled, when a
\* tasks/cancel came in between).
C16_TaskRegisteredBeforeProducer ==
  \A r \in Req :
    ProducerRunning(r)
      => /\ tasks[r] # NoTask
         /\ tasks[r].status \in {"working", "canceled"}
         /\ tasks[r].messages[1] = UserMessage(req[r].userText)

\* ------------------------------------------------------------------ C17
\* C17: while a stream is running, what tasks/get would return for its task carries
\* the messages of the event streamed last: after the k-th increment, the agent
\* message with the concatenation of increments 1..k.
C17_RegistryFollowsIncrements ==
  \A r \in Req :
    (req[r].route = "a2a" /\ req[r].pc = "streaming")
      => /\ tasks[r].messages = LastEvent(r).result.messages
         /\ Len(req[r].fullResponse) >= 1
              => tasks[r].messages[Len(tasks[r].messages)] = AgentMessage(req[r].fullResponse)

\* ------------------------------------------------------------------ C18
\* increments the producer of request r has yielded (each is one symbol long)
Produced(r) == Len(req[r].fullResponse)
RECURSIVE ConcatTo(_)
ConcatTo(i) == IF i = 0 THEN <<>> ELSE ConcatTo(i - 1) \o ChunkAt(i)

\* what an /a2a stream has written once its producer yielded n increments: the opening
\* event, then per increment the task with the text so far
A2AIncrementEvents(r, n) ==
  [i \in 1..(n + 1) |->
     IF i = 1
       THEN TaskEvent(Task(r, req[r].contextId, "working", <<UserMessage(req[r].userText)>>))
       ELSE TaskEvent(Task(r, req[r].contextId, "working",
                           <<UserMessage(req[r].userText), AgentMessage(ConcatTo(i - 1))>>))]
A2ATerminalEvents(r) ==
  <<TaskEvent(Task(r, req[r].contextId, "completed",
                   <<UserMessage(req[r].userText), AgentMessage(ConcatTo(Produced(r)))>>)),
    DoneSentinel>>
ChatIncrementEvents(r, n) ==
  [i \in 1..n |-> [type |-> "chunk", chunk |-> ChunkAt(i), sessionId |-> req[r].contextId]]

\* C18: a stream carries one event per increment, in production order, then exactly
\* one terminal event, and is then ended. On /a2a (producer sequence ended) the i-th
\* increment event holds increments 1..i and the terminal event the completed task;
\* on /chat/stream the i-th event holds increment i and the terminal event is done
\* or error. Before the terminal event the events are the increments so far.
C18_OneEventPerIncrementThenTerminal ==
  \A r \in Req :
    /\ (req[r].route = "a2a" /\ req[r].streaming /\ req[r].pc = "streaming")
         => res[r].events = A2AIncrementEvents(r, Produced(r)) /\ ~res[r].ended
    /\ (req[r].route = "a2a" /\ req[r].streaming /\ req[r].pc = "done"
                             /\ ~req[r].producerFailed)
         => /\ res[r].events = A2AIncrementEvents(r, Produced(r)) \o A2ATerminalEvents(r)
            /\ res[r].ended
    /\ (req[r].route = "chat" /\ req[r].streaming /\ InFlight(r))
         => res[r].events = ChatIncrementEvents(r, Produced(r)) /\ ~res[r].ended
    /\ (req[r].route = "chat" /\ req[r].streaming /\ req[r].pc = "done")
         => /\ Len(res[r].events) = Produced(r) + 1
            /\ SubSeq(res[r].events, 1, Produced(r)) = ChatIncrementEvents(r, Produced(r))
            /\ LastEvent(r).type \in {"done", "error"}
            /\ LastEvent(r).type = "done" <=> ~req[r].threw
            /\ res[r].ended

\* an /a2a stream delivered every increment and completed, and a /chat/stream failed
\* after its first increment
C18_Witness ==
  /\ \E r \in Req : /\ req[r].route = "a2a" /\ req[r].streaming /\ req[r].pc = "done"
                     /\ ~req[r].producerFailed /\ Produced(r) = MaxChunks
  /\ \E r \in Req : /\ req[r].route = "chat" /\ req[r].streaming /\ req[r].pc = "done"
                     /\ req[r].producerFailed /\ Produced(r) >= 1

\* ------------------------------------------------------------------ C19
\* C19: after the caller of a stream has gone away, the handler takes no further
\* increment from the producer and writes no further event.
C19_ClosedStreamIsAbandoned ==
  [][\A r \in Req :
       (req[r].streaming /\ res[r].clientClosed)
         => /\ req'[r].fullResponse = req[r].fullResponse
            /\ res'[r].events = res[r].events]_vars

\* ------------------------------------------------------------------ C20
\* the turn list a store holds for a context, given the store and the arrays
TurnsOf(map, arrays, ctx) == IF map[ctx] = NoRef THEN <<>> ELSE arrays[map[ctx]]
\* every turn list of both stores
AllTurns(conv, sess, arrays) ==
  [k \in {"a2a", "chat"} \X AllCtx |->
     TurnsOf(IF k[1] = "a2a" THEN conv ELSE sess, arrays, k[2])]
\* request r's work finishes successfully in this step
Succeeds(r) ==
  /\ req[r].contextId # NoCtx
  /\ Len(completionOrder'[Key(r)]) = Len(completionOrder[Key(r)]) + 1
  /\ completionOrder'[Key(r)][Len(completionOrder'[Key(r)])] = r

\* C20: a step in which no request finishes successfully leaves every turn list as
\* it was; a step in which request r finishes successfully appends the (user,
\* assistant) pair of r to the turn list of r's context and changes no other list.
C20_StoreWrittenOnlyOnSuccess ==
  [][LET before == AllTurns(conversationHistory, sessionHistory, heap)
         after == AllTurns(conversationHistory', sessionHistory', heap')
     IN /\ (\A r \in Req : ~Succeeds(r)) => after = before
        /\ \A r \in Req :
             Succeeds(r)
               => after = [before EXCEPT ![Key(r)] =
                             @ \o <<UserTurn(req[r].userText),
                                    AssistantTurn(req'[r].fullResponse)>>]]_vars

\* ------------------------------------------------------------------ C21
\* request r runs in this step
Acts(r) == req'[r] # req[r] \/ res'[r] # res[r]
\* no task but t changes
OtherTasksUnchanged(t) == \A u \in Req : u # t => tasks'[u] = tasks[u]
\* no turn list changes, but possibly that of context ctx in conversationHistory
OtherTurnsUnchanged(ctx) ==
  LET before == AllTurns(conversationHistory, sessionHistory, heap)
      after == AllTurns(conversationHistory', sessionHistory', heap')
  IN \A k \in DOMAIN before : k # <<"a2a", ctx>> => after[k] = before[k]

\* C21: a step of a message/send for context A with task T changes no turn list but
\* A's and no task but T; a tasks/cancel of T changes no turn list and no task but T,
\* and of T nothing but the status.
C21_DifferentKeysIndependent ==
  [][\A r \in Req :
       /\ (Acts(r) /\ req'[r].versionOk /\ req'[r].method = "message/send")
            => OtherTurnsUnchanged(req'[r].contextId) /\ OtherTasksUnchanged(r)
       /\ (Acts(r) /\ req'[r].versionOk /\ req'[r].method = "tasks/cancel")
            => /\ OtherTurnsUnchanged(NoCtx)
               /\ OtherTasksUnchanged(req'[r].taskId)
               /\ \A t \in Req :
                    (t = req'[r].taskId /\ tasks[t] # NoTask)
                      => tasks'[t] = [tasks[t] EXCEPT !.status = tasks'[t].status]]_vars

\* two message/send requests on different contexts have both completed, one of them
\* while the other was running
C21_Witness ==
  \E r1, r2 \in Req :
    /\ r1 < r2 /\ req[r1].method = "message/send" /\ req[r2].method = "message/send"
    /\ req[r1].contextId # req[r2].contextId
    /\ Completed(r1) /\ Completed(r2)
    /\ req[r1].streaming /\ Produced(r1) = MaxChunks
    /\ TurnList("a2a", req[r1].contextId) # <<>> /\ TurnList("a2a", req[r2].contextId) # <<>>

\* ------------------------------------------------------------------ C22
\* header.tsx:672-677, part_001:313-318: the error is rendered only while the payment
\* prompt is not: {error && !paymentRequired && <Alert>...}; the prompt itself
\* (679-689) shows paymentStatus, never error
ErrorShown == error # NoError /\ ~paymentRequired

\* the signature request of the running handlePayment is declined in this step
SignatureDeclined == opc = "sign" /\ opc' = "idle"

\* C22: when the signature is declined the failure is reported to the user, nothing
\* is sent, and the orchestrator shows "authorization needed" with the pending
\* message and the challenge it had, loading cleared.
C22_DeclinedSignatureKeepsPrompt ==
  [][SignatureDeclined
       => /\ ErrorShown'
          /\ sentLog' = sentLog
          /\ paymentRequired' /\ ~isLoading'
          /\ pendingMessage' = pendingMessage /\ pendingMessage' = cl.messageContent
          /\ paymentInfo' = paymentInfo /\ paymentInfo' = cl.paymentInfo]_vars

\* ------------------------------------------------------------------ C23
FailureKinds == {"notOk", "networkError"}
\* the response handled for the i-th request sent (the next request is sent only
\* after it; for the latest request it is the response handled last)
HandledFor(i) == IF i < Len(sentLog) THEN sentLog[i + 1].after ELSE last

\* C23: when a request (first attempt or resend) fails with a non-402 failure status
\* or a network error, the error is shown, loading is cleared, the transcript gets no
\* assistant message and the payment prompt is not up; and no request is ever sent
\* again for a submission one of whose requests failed that way.
C23_FailureEndsSubmission ==
  /\ [][(opc = "fetch" /\ opc' = "idle" /\ last'.kind \in FailureKinds)
          => /\ ErrorShown' /\ ~isLoading'
             /\ messages' = messages
             /\ sentLog' = sentLog]_vars
  /\ [](\A i, j \in 1..Len(sentLog) :
          (i < j /\ HandledFor(i).kind \in FailureKinds)
            => sentLog[j].sub # sentLog[i].sub)

\* a resend failed with a network error or a failure status, after which the user
\* submitted again
C23_Witness ==
  \E i \in 1..Len(sentLog) :
    /\ i < Len(sentLog)
    /\ sentLog[i].header # NoHeader /\ HandledFor(i).kind \in FailureKinds

\* ---------------------------------------------------------------------------- C24
SignatureRequested == sigRequests' # sigRequests
AuthorizedRequestSent ==
  /\ Len(sentLog') = Len(sentLog) + 1
  /\ sentLog'[Len(sentLog')].header # NoHeader
Enough(read) == read.kind = "read" /\ read.balance >= read.amount

\* C24: the insufficient-funds guard runs before the signature request: when the
\* balance read is below the required amount the handler stops there, asking for no
\* signature and sending nothing; a signature is asked for only in the step that has
\* just read a balance of at least the amount, and an authorized request is sent only
\* from the signature such a read led to.
C24_BalanceGuardBeforeSigning ==
  /\ [][(opc = "balance" /\ opc' # "balance" /\ ~Enough(balanceRead'))
          => /\ opc' = "idle" /\ ~isLoading'
             /\ ~SignatureRequested
             /\ sentLog' = sentLog]_vars
  /\ [][SignatureRequested => (opc = "balance" /\ opc' = "sign" /\ Enough(balanceRead'))]_vars
  /\ [][AuthorizedRequestSent => (opc = "sign" /\ Enough(balanceRead))]_vars
  /\ [](opc = "sign" => Enough(balanceRead))

\* A read below the amount, after an earlier authorization went all the way to a resend.
C24_Witness ==
  /\ opc = "idle"
  /\ balanceRead.kind = "read" /\ balanceRead.balance < balanceRead.amount
  /\ \E i \in 1..Len(sentLog) : sentLog[i].header # NoHeader

\* ---------------------------------------------------------------------------- C25
Challenged(k) == k < Len(sentLog) /\ sentLog[k + 1].after.kind = "402"
FirstAttempt(i) == \A j \in 1..(i - 1) : sentLog[j].sub # sentLog[i].sub
\* the request whose 402 was the last one handled before request i went out
LastChallengedBefore(i) ==
  CHOOSE k \in 1..(i - 1) :
    /\ Challenged(k)
    /\ \A k2 \in (k + 1)..(i - 1) : ~Challenged(k2)

\* C25: the first request of every submission goes out without a payment header; a
\* request sent by an authorization carries the payment header, and its body (message
\* and session id) is the body of the request that was challenged last before it.
C25_ResendRepeatsChallengedBody ==
  /\ [](\A i \in 1..Len(sentLog) :
          /\ FirstAttempt(i) => sentLog[i].header = NoHeader
          /\ sentLog[i].header # NoHeader
               => /\ \E k \in 1..(i - 1) : Challenged(k)
                  /\ sentLog[i].body = sentLog[LastChallengedBefore(i)].body)
  /\ [][(opc = "sign" /\ opc' = "fetch")
          => /\ Len(sentLog') = Len(sentLog) + 1
             /\ sentLog'[Len(sentLog')].header # NoHeader]_vars
  /\ [][nSubmit' # nSubmit
          => /\ Len(sentLog') = Len(sentLog) + 1
             /\ sentLog'[Len(sentLog')].header = NoHeader]_vars

\* An authorization resends the second submission after the first had been challenged too.
C25_Witness ==
  \E i \in 1..Len(sentLog) :
    /\ sentLog[i].header # NoHeader /\ sentLog[i].sub = 2
    /\ \E k \in 1..(i - 1) : Challenged(k) /\ sentLog[k].sub = 1

\* ---------------------------------------------------------------------------- C26
\* turns i and i + 1 of a list are the question and the answer of one finished request
\* of that store and context
PairOf(turns, i, store, ctx) ==
  \E r \in Req :
    /\ req[r].pc = "done" /\ req[r].route = store /\ req[r].contextId = ctx
    /\ turns[i] = UserTurn(req[r].userText)
    /\ turns[i + 1] = AssistantTurn(req[r].fullResponse)
CompletePairs(turns, store, ctx) ==
  /\ Len(turns) % 2 = 0
  /\ \A i \in 1..Len(turns) : i % 2 = 1 => PairOf(turns, i, store, ctx)

OperationStarts ==
  \/ Len(sentLog') > Len(sentLog)
  \/ (opc' = "balance" /\ opc # "balance")
  \/ SignatureRequested
\* the step goes on in the handler whose previous operation has just settled
SameHandlerGoesOn ==
  \/ (opc = "balance" /\ opc' = "sign")
  \/ (opc = "sign" /\ opc' = "fetch")
UserActs == nSubmit' # nSubmit \/ nPay' # nPay

\* C27: the orchestrator has one flow of control: a request, balance read or signature
\* request is outstanding only while isLoading is set; a submission or an authorization
\* starts only when isLoading is clear and nothing is outstanding; and an operation is
\* started only by a handler that has none outstanding, at most one per step.
C27_SingleFlowOfControl ==
  /\ [](opc # "idle" => isLoading)
  /\ [][UserActs => (~isLoading /\ opc = "idle")]_vars
  /\ [][OperationStarts => ((opc = "idle" /\ UserActs) \/ SameHandlerGoesOn)]_vars
  /\ [][Len(sentLog') <= Len(sentLog) + 1
          /\ \A s \in Subs : sigRequests'[s] <= sigRequests[s] + 1]_vars

\* A signature request is outstanding, after a request and a balance read of the same
\* flow were each started and settled.
C27_Witness ==
  /\ opc = "sign" /\ isLoading
  /\ Len(sentLog) >= 1 /\ balanceRead.kind = "read"

\* ---------------------------------------------------------------------------- C28
JsonSent(r) == res[r].json # NoJson
StreamStarted(r) == res[r].events # <<>>

\* C28: every /a2a request is answered exactly once, by one JSON-RPC response object or
\* by one event stream, never both; and res.json is never called on a response whose
\* stream has started, also when the producer fails in the middle of the stream.
C28_AnsweredExactlyOnce ==
  \A r \in Req :
    req[r].route = "a2a"
      => /\ ~(JsonSent(r) /\ StreamStarted(r))
         /\ req[r].pc = "done" => (JsonSent(r) \/ StreamStarted(r))
         /\ JsonSent(r) => ~req[r].streaming
         /\ ~res[r].jsonAfterHeaders

\* ---------------------------------------------------------------------------- C29
\* the requests whose response, a 402, has been handled
ChallengedSoFar == {k \in 1..Len(sentLog) : HandledFor(k).kind = "402"}
MostRecentlyChallenged == CHOOSE k \in ChallengedSoFar : \A k2 \in ChallengedSoFar : k2 <= k
PendingCleared == pendingMessage # NoMsg /\ pendingMessage' = NoMsg
ChallengeCleared == paymentInfo # NoInfo /\ paymentInfo' = NoInfo

\* C29: while paymentRequired is set, pendingMessage is not null and is the content of
\* the request that was challenged last; pendingMessage and the held challenge go back
\* to null only in the step that handles a successful response.
C29_PendingMessageIsChallengedOne ==
  /\ [](paymentRequired
          => /\ pendingMessage # NoMsg
             /\ ChallengedSoFar # {}
             /\ pendingMessage = sentLog[MostRecentlyChallenged].message)
  /\ [][(PendingCleared \/ ChallengeCleared)
          => (opc = "fetch" /\ opc' = "idle" /\ last'.kind = "ok")]_vars

\* The prompt is up for the second submission after the first had been challenged too.
C29_Witness ==
  /\ paymentRequired /\ pendingSub = 2
  /\ \E k \in ChallengedSoFar : sentLog[k].sub = 1

\* ---------------------------------------------------------------------------- C30
\* what the producer gave for task t in all: the increments put together for a
\* streaming request, the returned text otherwise
FullResult(t) == IF req[t].streaming THEN ConcatTo(Produced(t)) ELSE req[t].fullResponse
Registered(t) == tasks[t] # NoTask
MessagesFinal(t) == Registered(t) /\ (tasks[t].status = "completed" \/ req[t].pc = "done")

\* C30: every task in the registry starts with the user message that initiated it;
\* every completed task has exactly two messages, that user message and then the agent
\* message whose text is the whole of what the producer gave; and once a task has
\* completed its messages never change.
C30_TaskMessages ==
  /\ [](\A t \in Req :
          Registered(t)
            => /\ Len(tasks[t].messages) >= 1
               /\ tasks[t].messages[1] = UserMessage(TextOf(t))
               /\ tasks[t].status = "completed"
                    => tasks[t].messages = <<UserMessage(TextOf(t)),
                                             [role |-> "agent", text |-> FullResult(t)]>>)
  /\ [][\A t \in Req :
          MessagesFinal(t) => tasks'[t].messages = tasks[t].messages]_vars

\* A streaming task completed with every increment, and a non-streaming one completed.
C30_Witness ==
  \E t, u \in Req :
    /\ tasks[t].status = "completed" /\ req[t].streaming /\ Produced(t) = MaxChunks
    /\ tasks[u].status = "completed" /\ ~req[u].streaming

====
